---- MODULE Spec2Model ----
(***************************************************************************)
(* A model of src/app.py, the COVID-19 dashboard: load_data and            *)
(* get_countries, which build the process-wide dataset at import, and the  *)
(* two Dash callbacks update_date_range and update_graph, which serve the  *)
(* browser sessions.                                                       *)
(*                                                                         *)
(* Representation.  A float cell is an exact rational <<num, den>> in      *)
(* lowest terms, NaN is <<0, 0>>; float32/float64 rounding is not          *)
(* modelled.  A Timestamp is the number of days since 1970-01-01 (the      *)
(* data carries no time of day).  A 'YYYY-MM-DD' string is                 *)
(* <<"str", y, m, d>>, Python's None is <<"None">> where a date is         *)
(* expected and the string "<None>" where a name is expected.  A list of   *)
(* strings is a sequence.  A text built by an f-string is the sequence of  *)
(* its parts.                                                              *)
(***************************************************************************)
EXTENDS Integers, Sequences, FiniteSets, TLC

VARIABLES
    csv,        \* the rows of the CSV resource read by load_data
    pc,         \* "import" before the module-level load, "serving" after
    df,         \* the global DataFrame, a sequence of rows
    countries,  \* the global country list
    ui,         \* per browser session: the component properties
    ctx         \* callback_context.triggered of the latest update_date_range request

vars == <<csv, pc, df, countries, ui, ctx>>

-----------------------------------------------------------------------------
(* Bounds of the model *)

MaxDays == 10
MaxCases == 2
MaxClicks == 2
LargeDays == 520

-----------------------------------------------------------------------------
(* Values *)

None == "<None>"
NoneDate == <<"None">>
NaN == <<0, 0>>

RECURSIVE GCD(_, _)
GCD(a, b) == IF b = 0 THEN a ELSE GCD(b, a % b)

\* the rational n/d (d > 0, n >= 0) in lowest terms
Q(n, d) == LET g == GCD(n, d) IN IF g = 0 THEN <<0, 1>> ELSE <<n \div g, d \div g>>

IsNaN(x) == x[2] = 0

QAdd(a, b) == Q(a[1] * b[2] + b[1] * a[2], a[2] * b[2])

\* a function on 1..n as a sequence value
AsSeq(f) == f \o <<>>

Str(y, m, d) == <<"str", y, m, d>>

IsStr(x) == x[1] = "str"

-----------------------------------------------------------------------------
(* Calendar: pd.to_datetime / parse_dates and Timestamp.strftime('%Y-%m-%d') *)

IsLeap(y) == (y % 4 = 0 /\ y % 100 # 0) \/ y % 400 = 0

DaysInMonth(y, m) ==
    IF m = 2 THEN (IF IsLeap(y) THEN 29 ELSE 28)
    ELSE IF m \in {4, 6, 9, 11} THEN 30 ELSE 31

\* whether the text is a calendar date; pd.to_datetime raises on any other text
ValidDateText(s) ==
    /\ s[3] \in 1..12
    /\ s[4] >= 1
    /\ s[4] <= DaysInMonth(s[2], s[3])

\* days since 1970-01-01 of the civil date y-m-d
DaysFromCivil(y, m, d) ==
    LET yy  == IF m <= 2 THEN y - 1 ELSE y
        era == yy \div 400
        yoe == yy - era * 400
        mp  == IF m > 2 THEN m - 3 ELSE m + 9
        doy == (153 * mp + 2) \div 5 + d - 1
        doe == yoe * 365 + yoe \div 4 - yoe \div 100 + doy
    IN  era * 146097 + doe - 719468

ToDatetime(s) == DaysFromCivil(s[2], s[3], s[4])

\* the 'YYYY-MM-DD' text of a Timestamp
Strftime(z) ==
    LET zz  == z + 719468
        era == zz \div 146097
        doe == zz - era * 146097
        yoe == (doe - doe \div 1460 + doe \div 36524 - doe \div 146096) \div 365
        doy == doe - (365 * yoe + yoe \div 4 - yoe \div 100)
        mp  == (5 * doy + 2) \div 153
        d   == doy - (153 * mp + 2) \div 5 + 1
        m   == IF mp < 10 THEN mp + 3 ELSE mp - 9
        y   == yoe + era * 400 + (IF m <= 2 THEN 1 ELSE 0)
    IN  Str(y, m, d)

-----------------------------------------------------------------------------
(* load_data *)

\* the locations of the model, in the lexicographic order of their names
Locations == <<"Canada", "United States">>

LocRank(l) == CHOOSE i \in 1..Len(Locations) : Locations[i] = l

\* read_csv with usecols, dtype and parse_dates: the four columns kept, dates parsed
ReadCsv(rows) ==
    AsSeq([k \in 1..Len(rows) |->
            [location    |-> rows[k].location,
             date        |-> ToDatetime(rows[k].date),
             total_cases |-> rows[k].total_cases,
             new_cases   |-> rows[k].new_cases]])

\* the sort key of sort_values(['location', 'date'])
KeyLess(a, b) ==
    \/ LocRank(a.location) < LocRank(b.location)
    \/ a.location = b.location /\ a.date < b.date

\* df.sort_values(['location', 'date']): a stable sort; a row's place is the
\* number of rows that sort before it, rows of equal key keeping their order
SortValues(d) ==
    LET n     == Len(d)
        place == AsSeq([k \in 1..n |->
                    1 + Cardinality({j \in 1..n : \/ KeyLess(d[j], d[k])
                                                  \/ ~KeyLess(d[k], d[j]) /\ j < k})])
    IN  AsSeq([i \in 1..n |-> d[CHOOSE k \in 1..n : place[k] = i]])

\* Series.fillna(0); before it, a load that leaves the missing cells missing
FillNaSkipped(x) == x
FillNa(x) == IF IsNaN(x) THEN <<0, 1>> ELSE x

Window == 7
MinPeriods == 1

RECURSIVE SumObs(_, _, _)
\* sum of the non-NaN cells xs[lo..hi]
SumObs(xs, lo, hi) ==
    IF lo > hi THEN <<0, 1>>
    ELSE IF IsNaN(xs[hi]) THEN SumObs(xs, lo, hi - 1)
         ELSE QAdd(SumObs(xs, lo, hi - 1), xs[hi])

CountObs(xs, lo, hi) == Cardinality({j \in lo..hi : ~IsNaN(xs[j])})

\* x.rolling(window=7, min_periods=1).mean()
RollingMean(xs) ==
    [i \in 1..Len(xs) |->
        LET lo == IF i - Window + 1 < 1 THEN 1 ELSE i - Window + 1
            n  == CountObs(xs, lo, i)
            s  == SumObs(xs, lo, i)
        IN  IF n < MinPeriods THEN NaN ELSE Q(s[1], s[2] * n)]

\* the key of df.groupby('location'); the first is the key of a rolling mean
\* taken over the whole column
GroupKeyUngrouped(row) == "all"
GroupKey(row) == row.location

\* the row numbers of d that belong to the group key, in row order
GroupIndices(d, key) ==
    SelectSeq([k \in 1..Len(d) |-> k], LAMBDA k : GroupKey(d[k]) = key)

\* df.groupby('location')['new_cases'].transform(rolling mean): the lambda is
\* applied to each group's series and its values put back on the group's rows
GroupRollingMean(d) ==
    AsSeq([k \in 1..Len(d) |->
            LET idx   == GroupIndices(d, GroupKey(d[k]))
                group == [i \in 1..Len(idx) |-> d[idx[i]].new_cases]
                pos   == CHOOSE i \in 1..Len(idx) : idx[i] = k
            IN  RollingMean(group)[pos]])

load_data(rows) ==
    LET sorted == SortValues(ReadCsv(rows))
        filled == AsSeq([k \in 1..Len(sorted) |->
                            [sorted[k] EXCEPT !.new_cases = FillNa(@),
                                              !.total_cases = FillNa(@)]])
        avg    == GroupRollingMean(filled)
    IN  AsSeq([k \in 1..Len(filled) |->
                [location      |-> filled[k].location,
                 date          |-> filled[k].date,
                 total_cases   |-> filled[k].total_cases,
                 new_cases     |-> filled[k].new_cases,
                 new_cases_avg |-> avg[k]]])

\* get_countries: the distinct locations, sorted
get_countries(d) ==
    LET present == {d[k].location : k \in 1..Len(d)}
        RECURSIVE Pick(_)
        Pick(i) == IF i > Len(Locations) THEN <<>>
                   ELSE IF Locations[i] \in present
                        THEN <<Locations[i]>> \o Pick(i + 1)
                        ELSE Pick(i + 1)
    IN  Pick(1)

-----------------------------------------------------------------------------
(* update_date_range *)

FirstWaveBtn == "first-wave-btn"
DeltaWaveBtn == "delta-wave-btn"
OmicronWaveBtn == "omicron-wave-btn"

\* a 'component.property' text, as the sequence of its dot-free parts and dots
PropId(id, prop) == <<id, ".", prop>>

RECURSIVE SplitHead(_)
\* s.split('.')[0]: the text before the first dot
SplitHead(s) ==
    IF s = <<>> \/ s[1] = "." THEN <<>>
    ELSE <<s[1]>> \o SplitHead(Tail(s))

DefaultRange == <<Str(2020, 1, 1), Str(2024, 1, 1)>>

\* a resolver that reads the click counts instead of the triggering input
update_date_range_ByClicks(first_wave, delta_wave, omicron_wave, triggered) ==
    IF first_wave > 1 THEN <<Str(2020, 3, 1), Str(2020, 6, 30)>>
    ELSE IF delta_wave > 1 THEN <<Str(2021, 6, 1), Str(2021, 11, 30)>>
    ELSE IF omicron_wave > 1 THEN <<Str(2021, 12, 15), Str(2022, 3, 31)>>
    ELSE DefaultRange

\* the callback: the click counts are its arguments, callback_context.triggered
\* is the list of the inputs that fired it
update_date_range(first_wave, delta_wave, omicron_wave, triggered) ==
    IF triggered = <<>> THEN DefaultRange
    ELSE LET button_id == SplitHead(triggered[1].prop_id)
         IN  IF button_id = <<FirstWaveBtn>> THEN <<Str(2020, 3, 1), Str(2020, 6, 30)>>
             ELSE IF button_id = <<DeltaWaveBtn>> THEN <<Str(2021, 6, 1), Str(2021, 11, 30)>>
             ELSE IF button_id = <<OmicronWaveBtn>> THEN <<Str(2021, 12, 15), Str(2022, 3, 31)>>
             ELSE DefaultRange

-----------------------------------------------------------------------------
(* update_graph *)

AnnotationLimit == 500

OmicronDate == ToDatetime(Str(2022, 1, 10))
DeltaDate == ToDatetime(Str(2021, 8, 15))

Columns == {"location", "date", "total_cases", "new_cases", "new_cases_avg"}

\* `not x` for a str-or-None
Falsy(x) == x = None \/ x = ""

\* `value and option in value` for a checklist's list of checked options
Checked(value, option) ==
    /\ value # <<>>
    /\ \E i \in 1..Len(value) : value[i] = option

\* metric.replace('_', ' ').title(), on the column names
MetricTitle(metric) ==
    CASE metric = "total_cases" -> "Total Cases"
      [] metric = "new_cases" -> "New Cases"
      [] metric = "new_cases_avg" -> "New Cases Avg"
      [] metric = "location" -> "Location"
      [] metric = "date" -> "Date"
      [] OTHER -> metric

\* a figure with a title and no trace
MessageFigure(title) ==
    [title |-> title, data |-> <<>>, annotations |-> <<>>, yaxis_type |-> None]

\* df[df["location"] == country].copy()
CountryRows(d, country) == SelectSeq(d, LAMBDA r : r.location = country)

\* country_df[(country_df["date"] >= start_date) & (country_df["date"] <= end_date)];
\* before it, the filter with exclusive ends and the filter that accepts the
\* two dates in either order
DateRowsExclusive(rows, start, end) == SelectSeq(rows, LAMBDA r : r.date > start /\ r.date < end)
DateRowsEitherWay(rows, start, end) ==
    SelectSeq(rows, LAMBDA r : \/ r.date >= start /\ r.date <= end
                               \/ r.date >= end /\ r.date <= start)
DateRows(rows, start, end) == SelectSeq(rows, LAMBDA r : r.date >= start /\ r.date <= end)

\* the global DataFrame after the query: country_df is a copy, and del only
\* unbinds the local names; before it, a query that filters df itself
DatasetAfterQueryInPlace(d, country) == CountryRows(d, country)
DatasetAfterQuery(d, country) == d

\* filtered_df[filtered_df["date"] >= event].head(1), then add_annotation
EventAnnotation(filtered, metric, event, text) ==
    LET after == SelectSeq(filtered, LAMBDA r : r.date >= event)
    IN  IF after = <<>> THEN <<>>
        ELSE <<[x |-> after[1].date, y |-> after[1][metric], text |-> text]>>

\* the condition of the annotation block; before it, the condition without the
\* country test and the condition without the size test
AnnotateAnyCountry(show_annotations, country, n) ==
    Checked(show_annotations, "show") /\ n < AnnotationLimit
AnnotateAnySize(show_annotations, country, n) ==
    Checked(show_annotations, "show") /\ country = "United States"
Annotate(show_annotations, country, n) ==
    /\ Checked(show_annotations, "show")
    /\ country = "United States"
    /\ n < AnnotationLimit

\* whether the event date lies in the interval; before it, the test of the
\* end alone
EventInRangeToEnd(start, event, end) == event <= end
EventInRange(start, event, end) == start <= event /\ event <= end

\* `not country or not metric`; before it, the test of the country alone
MissingSelectionCountryOnly(country, metric) == Falsy(country)
MissingSelection(country, metric) == Falsy(country) \/ Falsy(metric)

\* the body of the try block: the figure it returns, or the exception it raises
GraphBody(d, country, metric, start_date, end_date, show_annotations, show_markers, use_log_scale) ==
    IF MissingSelection(country, metric)
    THEN [exc |-> None, queried |-> FALSE,
          figure |-> MessageFigure(<<"Please select country and metric">>)]
    ELSE IF IsStr(start_date) /\ ~ValidDateText(start_date)
    THEN [exc |-> "ValueError", queried |-> FALSE, figure |-> None]
    ELSE IF IsStr(end_date) /\ ~ValidDateText(end_date)
    THEN [exc |-> "ValueError", queried |-> FALSE, figure |-> None]
    ELSE IF ~IsStr(start_date) \/ ~IsStr(end_date)
    THEN \* a datetime column compared with None
         [exc |-> "TypeError", queried |-> TRUE, figure |-> None]
    ELSE
    LET start    == ToDatetime(start_date)
        end      == ToDatetime(end_date)
        filtered == DateRows(CountryRows(d, country), start, end)
    IN  IF filtered = <<>>
        THEN [exc |-> None, queried |-> TRUE,
              figure |-> MessageFigure(<<"No data available for ", country,
                                         " in selected date range">>)]
        ELSE IF metric \notin Columns
        THEN [exc |-> "KeyError", queried |-> TRUE, figure |-> None]
        ELSE
        LET trace == [x    |-> [k \in 1..Len(filtered) |-> filtered[k].date],
                      y    |-> [k \in 1..Len(filtered) |-> filtered[k][metric]],
                      mode |-> IF Checked(show_markers, "show")
                               THEN "lines+markers" ELSE "lines",
                      name |-> MetricTitle(metric)]
            omicron == IF EventInRange(start, OmicronDate, end)
                       THEN EventAnnotation(filtered, metric, OmicronDate, "Omicron Wave")
                       ELSE <<>>
            delta   == IF EventInRange(start, DeltaDate, end)
                       THEN EventAnnotation(filtered, metric, DeltaDate, "Delta Wave")
                       ELSE <<>>
        IN  [exc |-> None, queried |-> TRUE,
             figure |->
                [title       |-> <<MetricTitle(metric), " in ", country>>,
                 data        |-> <<trace>>,
                 annotations |-> IF Annotate(show_annotations, country, Len(filtered))
                                 THEN omicron \o delta ELSE <<>>,
                 yaxis_type  |-> IF Checked(use_log_scale, "log")
                                 THEN "log" ELSE "linear"]]

\* the exceptions the except clause of update_graph catches; before it, a
\* clause that names KeyError only
CaughtOnlyKeyError(exc) == exc = "KeyError"
Caught(exc) == exc \in {"ValueError", "TypeError", "KeyError"}

\* the callback: what Dash receives (a figure, or an escaped exception)
update_graph(d, country, metric, start_date, end_date, show_annotations, show_markers, use_log_scale) ==
    LET r == GraphBody(d, country, metric, start_date, end_date,
                       show_annotations, show_markers, use_log_scale)
    IN  [figure  |-> IF r.exc = None THEN r.figure
                     ELSE IF Caught(r.exc) THEN MessageFigure(<<"Error: ", r.exc>>)
                     ELSE None,
         escaped |-> r.exc # None /\ ~Caught(r.exc),
         queried |-> r.queried,
         df      |-> IF r.queried THEN DatasetAfterQuery(d, country) ELSE d]

-----------------------------------------------------------------------------
(* The CSV resources of the model *)

Cases(n) == <<n, 1>>

CsvRow(location, date, total_cases, new_cases) ==
    [location |-> location, date |-> date, total_cases |-> total_cases,
     new_cases |-> new_cases, new_deaths |-> Cases(0)]

\* both countries around the two events, rows out of order, one day without counts
CsvBoth ==
    << CsvRow("United States", Str(2022, 1, 12), Cases(10), Cases(1)),
       CsvRow("Canada",        Str(2021, 8, 16), Cases(3),  Cases(2)),
       CsvRow("United States", Str(2021, 8, 1),  Cases(5),  Cases(1)),
       CsvRow("United States", Str(2021, 8, 31), NaN,       NaN),
       CsvRow("Canada",        Str(2021, 8, 1),  Cases(1),  Cases(1)),
       CsvRow("United States", Str(2021, 8, 16), Cases(7),  Cases(2)),
       CsvRow("Canada",        Str(2022, 1, 10), Cases(4),  Cases(1)),
       CsvRow("United States", Str(2022, 1, 10), Cases(9),  Cases(2)) >>

\* the United States has no row between the Delta date and the end of August 2021
CsvGap ==
    << CsvRow("United States", Str(2021, 8, 1),  Cases(5), Cases(5)),
       CsvRow("United States", Str(2021, 8, 10), Cases(6), Cases(1)),
       CsvRow("Canada",        Str(2021, 8, 20), Cases(2), Cases(2)),
       CsvRow("United States", Str(2022, 2, 1),  Cases(8), Cases(2)) >>

\* no row of the United States at all
CsvCanada ==
    << CsvRow("Canada", Str(2021, 8, 16), Cases(3), Cases(3)),
       CsvRow("Canada", Str(2022, 1, 11), Cases(4), Cases(1)) >>

SmallCsvs == {CsvBoth, CsvGap, CsvCanada}

\* a generated resource: nC days of Canada and nU days of the United States from
\* 2021-08-01 on, the United States with `base` new cases a day and MaxCases
\* more on day `spike`, day `gap` of each country without counts, the rows in
\* ascending or in descending order
FirstDay == ToDatetime(Str(2021, 8, 1))

GenRow(location, k, base, spike, gap) ==
    CsvRow(location, Strftime(FirstDay + k - 1),
           IF k = gap THEN NaN ELSE Cases(k),
           IF k = gap THEN NaN
           ELSE Cases(base + (IF k = spike THEN MaxCases ELSE 0)))

Reverse(s) == [i \in 1..Len(s) |-> s[Len(s) + 1 - i]]

GenCsv(nC, nU, base, spike, gap, order) ==
    LET rows == [k \in 1..nC |-> GenRow("Canada", k, MaxCases, 0, gap)]
                \o [k \in 1..nU |-> GenRow("United States", k, base, spike, gap)]
    IN  IF order = "asc" THEN rows ELSE Reverse(rows)

GenCsvs ==
    {GenCsv(nC, nU, base, spike, gap, order) :
        nC \in {0, 2, MaxDays}, nU \in 0..MaxDays, base \in {0, 1},
        spike \in {1, 2, MaxDays}, gap \in {0, 2}, order \in {"asc", "desc"}}

\* a resource without the United States row of one day: the day is absent from
\* the file, not reported with empty counts
DropDay(rows, k) ==
    SelectSeq(rows, LAMBDA r : ~(r.location = "United States"
                                 /\ r.date = Strftime(FirstDay + k - 1)))

AbsentDayCsvs == {DropDay(rows, 3) : rows \in GenCsvs}

\* the United States on LargeDays consecutive days from 2020-04-01 on
LargeCsv ==
    AsSeq([k \in 1..LargeDays |->
        CsvRow("United States", Strftime(ToDatetime(Str(2020, 4, 1)) + k - 1),
               Cases(k), Cases(1))])
    \o << CsvRow("Canada", Str(2021, 8, 16), Cases(3), Cases(3)) >>

-----------------------------------------------------------------------------
(* The served application: the layout's initial properties and the requests *)

\* df["date"].min() and df["date"].max()
DateMin(d) == CHOOSE z \in {d[k].date : k \in 1..Len(d)} : \A k \in 1..Len(d) : z <= d[k].date
DateMax(d) == CHOOSE z \in {d[k].date : k \in 1..Len(d)} : \A k \in 1..Len(d) : z >= d[k].date

\* the properties of a freshly served page; update_graph has its initial call
\* outstanding, update_date_range has none (prevent_initial_call)
Layout(d) ==
    [country          |-> "United States",
     metric           |-> "total_cases",
     start_date       |-> Strftime(DateMin(d)),
     end_date         |-> Strftime(DateMax(d)),
     show_annotations |-> <<"show">>,
     show_markers     |-> <<>>,
     use_log_scale    |-> <<>>,
     n_clicks         |-> [b \in {FirstWaveBtn, DeltaWaveBtn, OmicronWaveBtn} |-> 0],
     figure           |-> MessageFigure(<<>>),
     escaped          |-> FALSE,
     queried          |-> FALSE,
     pending          |-> TRUE]

\* Dash calls update_graph with the session's current properties and puts its
\* result on covid-graph
GraphResult(d, p) ==
    update_graph(d, p.country, p.metric, p.start_date, p.end_date,
                 p.show_annotations, p.show_markers, p.use_log_scale)

\* a graph that keeps the chart it shows when the callback returns a message
RenderedKeepingChart(p, r) ==
    [p EXCEPT !.figure  = IF r.escaped \/ (r.figure.data = <<>> /\ p.figure.data # <<>>)
                          THEN p.figure ELSE r.figure,
              !.escaped = r.escaped,
              !.queried = r.queried]

\* an exception that escapes the callback leaves the graph as it was
Rendered(p, r) ==
    [p EXCEPT !.figure  = IF r.escaped THEN p.figure ELSE r.figure,
              !.escaped = r.escaped,
              !.queried = r.queried]

NoRequest == [triggered |-> <<>>, out |-> <<>>]

Init ==
    /\ csv \in SmallCsvs
    /\ pc = "import"
    /\ df = <<>>
    /\ countries = <<>>
    /\ ui = [s \in {} |-> 0]
    /\ ctx = NoRequest

\* the module-level code: df = load_data(), countries = get_countries(df), and
\* the layout, whose date picker needs a first and a last date
LoadData ==
    /\ pc = "import"
    /\ df' = load_data(csv)
    /\ countries' = get_countries(df')
    /\ pc' = IF csv = <<>> THEN "failed" ELSE "serving"
    /\ UNCHANGED <<csv, ui, ctx>>

\* a browser loads the page
OpenSession(s) ==
    /\ pc = "serving"
    /\ s \notin DOMAIN ui
    /\ ui' = [t \in DOMAIN ui \cup {s} |-> IF t = s THEN Layout(df) ELSE ui[t]]
    /\ UNCHANGED <<csv, pc, df, countries, ctx>>

\* an input of update_graph changes to value v and the callback runs
SetInput(s, prop, v) ==
    /\ pc = "serving"
    /\ s \in DOMAIN ui
    /\ LET p == [ui[s] EXCEPT ![prop] = v]
           r == GraphResult(df, p)
       IN  /\ ui' = [ui EXCEPT ![s] = Rendered(p, r)]
           /\ df' = r.df
    /\ UNCHANGED <<csv, pc, countries, ctx>>

SelectCountry(s, c) ==
    s \in DOMAIN ui /\ ui[s].country # c /\ SetInput(s, "country", c)
SelectMetric(s, m) ==
    s \in DOMAIN ui /\ ui[s].metric # m /\ SetInput(s, "metric", m)
ToggleAnnotations(s, v) ==
    s \in DOMAIN ui /\ ui[s].show_annotations # v /\ SetInput(s, "show_annotations", v)
ToggleMarkers(s, v) ==
    s \in DOMAIN ui /\ ui[s].show_markers # v /\ SetInput(s, "show_markers", v)
ToggleLogScale(s, v) ==
    s \in DOMAIN ui /\ ui[s].use_log_scale # v /\ SetInput(s, "use_log_scale", v)

\* the date picker changes both of its dates and the callback runs
PickDates(s, sd, ed) ==
    /\ pc = "serving"
    /\ s \in DOMAIN ui
    /\ LET p == [ui[s] EXCEPT !.start_date = sd, !.end_date = ed]
           r == GraphResult(df, p)
       IN  /\ ui' = [ui EXCEPT ![s] = Rendered(p, r)]
           /\ df' = r.df
    /\ UNCHANGED <<csv, pc, countries, ctx>>

\* a request to update_date_range whose changed inputs are `triggered`; its two
\* outputs go to the date picker, which makes Dash call update_graph next
DateRangeRequest(s, clicks, triggered) ==
    LET out == update_date_range(clicks[FirstWaveBtn], clicks[DeltaWaveBtn],
                                 clicks[OmicronWaveBtn], triggered)
    IN  /\ ui' = [ui EXCEPT ![s] = [@ EXCEPT !.n_clicks = clicks,
                                             !.start_date = out[1],
                                             !.end_date = out[2],
                                             !.pending = TRUE]]
        /\ ctx' = [triggered |-> triggered, out |-> out]
        /\ UNCHANGED <<csv, pc, df, countries>>

TotalClicks(n) == n[FirstWaveBtn] + n[DeltaWaveBtn] + n[OmicronWaveBtn]

\* a click on a wave button
PressPreset(s, b) ==
    /\ pc = "serving"
    /\ s \in DOMAIN ui
    /\ TotalClicks(ui[s].n_clicks) < MaxClicks
    /\ LET clicks == [ui[s].n_clicks EXCEPT ![b] = @ + 1]
       IN  DateRangeRequest(s, clicks, <<[prop_id |-> PropId(b, "n_clicks")]>>)

\* any other request to the callback's endpoint
ForeignRequest(s, triggered) ==
    /\ pc = "serving"
    /\ s \in DOMAIN ui
    /\ DateRangeRequest(s, ui[s].n_clicks, triggered)

\* the update_graph call that Dash owes the session
GraphCallback(s) ==
    /\ pc = "serving"
    /\ s \in DOMAIN ui
    /\ ui[s].pending
    /\ LET r == GraphResult(df, ui[s])
       IN  /\ ui' = [ui EXCEPT ![s] = [Rendered(@, r) EXCEPT !.pending = FALSE]]
           /\ df' = r.df
    /\ UNCHANGED <<csv, pc, countries, ctx>>

-----------------------------------------------------------------------------
(* Specifications *)

A == Str(2021, 8, 1)
B == Str(2021, 8, 31)

\* what the session's user, or a crafted request, may send
CountryInputs == {None, "Canada", "United States"}
MetricInputs == {None, "total_cases", "new_cases_avg", "new_deaths"}
DateInputs ==
    {<<A, B>>, <<B, A>>,
     <<NoneDate, B>>, <<A, NoneDate>>,
     <<Str(2021, 13, 1), B>>, <<A, Str(2021, 2, 30)>>}
ChecklistInputs == {<<>>, <<"show">>}
LogInputs == {<<>>, <<"log">>}
Buttons == {FirstWaveBtn, DeltaWaveBtn, OmicronWaveBtn}

\* one session on the small resources
Next ==
    \/ LoadData
    \/ OpenSession("s1")
    \/ GraphCallback("s1")
    \/ \E c \in CountryInputs : SelectCountry("s1", c)
    \/ \E m \in MetricInputs : SelectMetric("s1", m)
    \/ \E d \in DateInputs : PickDates("s1", d[1], d[2])
    \/ \E v \in ChecklistInputs : ToggleAnnotations("s1", v)
    \/ \E v \in ChecklistInputs : ToggleMarkers("s1", v)
    \/ \E v \in LogInputs : ToggleLogScale("s1", v)
    \/ \E b \in Buttons : PressPreset("s1", b)

Spec == Init /\ [][Next]_vars

\* load_data alone, on the generated resources
InitLoad ==
    /\ csv \in GenCsvs
    /\ pc = "import"
    /\ df = <<>>
    /\ countries = <<>>
    /\ ui = [s \in {} |-> 0]
    /\ ctx = NoRequest

NextLoad == LoadData

SpecLoad == InitLoad /\ [][NextLoad]_vars

\* two sessions on the large resource; the picked intervals end on 2021-08-20
\* and hold AnnotationLimit and AnnotationLimit - 1 days
InitLarge ==
    /\ csv = LargeCsv
    /\ pc = "import"
    /\ df = <<>>
    /\ countries = <<>>
    /\ ui = [s \in {} |-> 0]
    /\ ctx = NoRequest

LargeEnd == Str(2021, 8, 20)
LargeDateInputs ==
    {<<Strftime(ToDatetime(LargeEnd) - AnnotationLimit + 1), LargeEnd>>,
     <<Strftime(ToDatetime(LargeEnd) - AnnotationLimit + 2), LargeEnd>>}

NextLarge ==
    \/ LoadData
    \/ \E s \in {"s1", "s2"} :
        \/ OpenSession(s)
        \/ GraphCallback(s)
        \/ \E c \in {"Canada", "United States"} : SelectCountry(s, c)
        \/ \E d \in LargeDateInputs : PickDates(s, d[1], d[2])
        \/ \E v \in ChecklistInputs : ToggleAnnotations(s, v)

SpecLarge == InitLarge /\ [][NextLarge]_vars

\* two sessions sharing the dataset
InitShared ==
    /\ csv \in {CsvBoth, CsvGap}
    /\ pc = "import"
    /\ df = <<>>
    /\ countries = <<>>
    /\ ui = [s \in {} |-> 0]
    /\ ctx = NoRequest

NextShared ==
    \/ LoadData
    \/ \E s \in {"s1", "s2"} :
        \/ OpenSession(s)
        \/ GraphCallback(s)
        \/ \E c \in {"Canada", "United States"} : SelectCountry(s, c)
        \/ \E m \in {"total_cases", "new_cases_avg"} : SelectMetric(s, m)
        \/ PickDates(s, A, B)
        \/ PressPreset(s, DeltaWaveBtn)

SpecShared == InitShared /\ [][NextShared]_vars

\* the requests to update_date_range: the three buttons, and requests whose
\* changed inputs are none, another component, or several
InitPreset ==
    /\ csv \in {CsvBoth, CsvCanada}
    /\ pc = "import"
    /\ df = <<>>
    /\ countries = <<>>
    /\ ui = [s \in {} |-> 0]
    /\ ctx = NoRequest

Fired(id) == [prop_id |-> PropId(id, "n_clicks")]

TriggerInputs ==
    {<<>>,
     <<[prop_id |-> <<".">>]>>,
     <<Fired("reset-btn")>>,
     <<[prop_id |-> PropId("date-picker", "start_date")]>>,
     <<Fired(OmicronWaveBtn), Fired(FirstWaveBtn)>>,
     <<Fired("reset-btn"), Fired(DeltaWaveBtn)>>}

NextPreset ==
    \/ LoadData
    \/ OpenSession("s1")
    \/ GraphCallback("s1")
    \/ PickDates("s1", A, B)
    \/ \E b \in Buttons : PressPreset("s1", b)
    \/ \E triggered \in TriggerInputs : ForeignRequest("s1", triggered)

SpecPreset == InitPreset /\ [][NextPreset]_vars

-----------------------------------------------------------------------------
(* The claims *)

NumericColumns == {"total_cases", "new_cases", "new_cases_avg"}

\* the figure on the session's graph is what update_graph returned for the
\* session's current properties
Fresh(p) == ~p.pending /\ ~p.escaped

WellFormed(p) ==
    /\ IsStr(p.start_date) /\ ValidDateText(p.start_date)
    /\ IsStr(p.end_date) /\ ValidDateText(p.end_date)

\* the row numbers of the dataset that match the session's country and interval
Matching(p) ==
    {k \in 1..Len(df) : /\ df[k].location = p.country
                        /\ ToDatetime(p.start_date) <= df[k].date
                        /\ df[k].date <= ToDatetime(p.end_date)}

\* the i-th smallest member of a set of row numbers
Nth(S, i) == CHOOSE k \in S : Cardinality({j \in S : j < k}) = i - 1

IsChart(f) == f.data # <<>>
IsError(f) == f.data = <<>> /\ f.title # <<>> /\ f.title[1] = "Error: "
IsEmptyState(f) == f.data = <<>> /\ f.title # <<>> /\ f.title[1] # "Error: "
IsNoData(f) == f.data = <<>> /\ f.title # <<>> /\ f.title[1] = "No data available for "
IsPleaseSelect(f) == f.data = <<>> /\ f.title = <<"Please select country and metric">>

PlottedX(f) == IF IsChart(f) THEN f.data[1].x ELSE <<>>
PlottedY(f) == IF IsChart(f) THEN f.data[1].y ELSE <<>>

\* C1: for a selected country, a metric column and a well-formed interval, the
\* plotted series is exactly the dataset rows with location = country and
\* start <= date <= end, each once, in the dataset's order, which is ascending
\* in date.
C1_QueryExact ==
    \A s \in DOMAIN ui :
        LET p == ui[s] IN
        (Fresh(p) /\ p.country # None /\ p.metric \in NumericColumns /\ WellFormed(p)) =>
            LET m  == Matching(p)
                xs == PlottedX(p.figure)
                ys == PlottedY(p.figure)
            IN  /\ Len(xs) = Cardinality(m)
                /\ \A i \in 1..Len(xs) :
                      /\ xs[i] = df[Nth(m, i)].date
                      /\ ys[i] = df[Nth(m, i)][p.metric]
                /\ \A i \in 1..(Len(xs) - 1) : xs[i] <= xs[i + 1]

\* the United States from 2021-08-01 to 2021-08-31, both end days plotted, with
\* rows of the country outside the interval and rows of another country inside
C1_Witness ==
    \E s \in DOMAIN ui :
        /\ Fresh(ui[s])
        /\ ui[s].country = "United States"
        /\ ui[s].start_date = A /\ ui[s].end_date = B
        /\ PlottedX(ui[s].figure) = <<ToDatetime(A), ToDatetime(Str(2021, 8, 16)), ToDatetime(B)>>
        /\ \E k \in 1..Len(df) : df[k].location = "Canada" /\ df[k].date = ToDatetime(A)
        /\ \E k \in 1..Len(df) : df[k].location = "United States" /\ df[k].date > ToDatetime(B)

RECURSIVE SumNewCases(_)
\* the sum of new_cases over a set of row numbers
SumNewCases(S) ==
    IF S = {} THEN <<0, 1>>
    ELSE LET k == CHOOSE k \in S : TRUE
         IN  QAdd(SumNewCases(S \ {k}), df[k].new_cases)

\* the rows of df[k]'s location up to row k, and the last seven of them
OwnRows(k) == {j \in 1..k : df[j].location = df[k].location}
OwnWindow(k) == {j \in OwnRows(k) : Cardinality({h \in OwnRows(k) : h > j}) <= 6}

\* C2: after load_data the rows of a location are in ascending date order and
\* new_cases_avg of each row is the mean of new_cases over the location's own
\* last (at most 7) rows up to that row, never over a row of another location.
C2_RollingMean ==
    pc # "import" =>
        \A k \in 1..Len(df) :
            LET w == OwnWindow(k)
                s == SumNewCases(w)
            IN  /\ Cardinality(w) <= 7
                /\ df[k].new_cases_avg = Q(s[1], s[2] * Cardinality(w))
                /\ \A j \in OwnRows(k) : df[j].date <= df[k].date

\* the United States directly follows Canada, whose counts differ, and has more
\* than seven rows, so that its window both starts at the boundary and slides
C2_Witness ==
    /\ pc = "serving"
    /\ \E k \in 2..Len(df) :
        /\ df[k - 1].location = "Canada"
        /\ df[k].location = "United States"
        /\ df[k - 1].new_cases # df[k].new_cases
        /\ df[k].new_cases_avg = df[k].new_cases
        /\ Len(df) >= k + 8
        /\ df[k + 8].location = "United States"
        /\ df[k + 8].new_cases_avg # df[k + 7].new_cases_avg

\* C3: no exception escapes update_graph, and what it returns is a chart, a
\* message figure without data (please select, no data available), or an error
\* message figure.
C3_AlwaysRenderable ==
    \A s \in DOMAIN ui :
        /\ ~ui[s].escaped
        /\ ~ui[s].pending =>
            \/ IsChart(ui[s].figure)
            \/ IsEmptyState(ui[s].figure)
            \/ IsError(ui[s].figure)

\* a metric that is no column of the dataset, with rows to plot: an error message
C3_Witness ==
    \E s \in DOMAIN ui :
        /\ ~ui[s].pending
        /\ ui[s].metric = "new_deaths"
        /\ ui[s].country = "United States"
        /\ IsError(ui[s].figure)
        /\ ui[s].figure.title = <<"Error: ", "KeyError">>

\* C4: with a country and a metric selected and a well-formed interval that no
\* row of the country matches (start > end included), the result is the
\* "No data available" figure: no error, no data point, no annotation.
C4_EmptyResult ==
    \A s \in DOMAIN ui :
        LET p == ui[s] IN
        (/\ ~p.pending
         /\ p.country # None /\ p.metric # None
         /\ WellFormed(p)
         /\ Matching(p) = {}) =>
            /\ ~p.escaped
            /\ IsNoData(p.figure)
            /\ ~IsError(p.figure)
            /\ p.figure.data = <<>>
            /\ p.figure.annotations = <<>>

\* start > end, for a country that has rows between the two dates
C4_Witness ==
    \E s \in DOMAIN ui :
        /\ ~ui[s].pending
        /\ ui[s].country = "United States"
        /\ ui[s].start_date = B /\ ui[s].end_date = A
        /\ \E k \in 1..Len(df) : /\ df[k].location = "United States"
                                 /\ df[k].date > ToDatetime(A)
                                 /\ df[k].date < ToDatetime(B)
        /\ IsNoData(ui[s].figure)

\* C5: with no country or no metric selected the result is the "please select"
\* figure, computed without querying the dataset, whatever the dates and toggles.
C5_PleaseSelect ==
    \A s \in DOMAIN ui :
        LET p == ui[s] IN
        (~p.pending /\ (p.country = None \/ p.metric = None)) =>
            /\ ~p.escaped
            /\ IsPleaseSelect(p.figure)
            /\ ~p.queried
            /\ ~IsError(p.figure)
            /\ ~IsNoData(p.figure)

\* no metric, a country that has rows, and a missing start date
C5_Witness ==
    \E s \in DOMAIN ui :
        /\ ~ui[s].pending
        /\ ui[s].metric = None
        /\ ui[s].country = "United States"
        /\ ui[s].start_date = NoneDate
        /\ IsPleaseSelect(ui[s].figure)

\* the component id of a 'component.property' text
ComponentId(prop_id) == IF prop_id[1] = "." THEN "" ELSE prop_id[1]

\* the interval the claim gives for a list of triggering inputs
PresetTable(triggered) ==
    IF triggered = <<>> THEN <<Str(2020, 1, 1), Str(2024, 1, 1)>>
    ELSE CASE ComponentId(triggered[1].prop_id) = "first-wave-btn" ->
                <<Str(2020, 3, 1), Str(2020, 6, 30)>>
           [] ComponentId(triggered[1].prop_id) = "delta-wave-btn" ->
                <<Str(2021, 6, 1), Str(2021, 11, 30)>>
           [] ComponentId(triggered[1].prop_id) = "omicron-wave-btn" ->
                <<Str(2021, 12, 15), Str(2022, 3, 31)>>
           [] OTHER -> <<Str(2020, 1, 1), Str(2024, 1, 1)>>

\* C6: what update_date_range returns is the table's interval for the first
\* triggering input, the default when there is none or it is no preset button,
\* whatever the click counts and the earlier requests.
C6_PresetTable ==
    ctx.out # <<>> => ctx.out = PresetTable(ctx.triggered)

\* the second click in a row on the Delta button, after a click on another one
C6_Witness ==
    /\ ctx.out = <<Str(2021, 6, 1), Str(2021, 11, 30)>>
    /\ \E s \in DOMAIN ui :
        /\ ui[s].n_clicks["delta-wave-btn"] = 1
        /\ ui[s].n_clicks["omicron-wave-btn"] = 1
        /\ ui[s].start_date = Str(2021, 6, 1)

\* C7: for a country other than "United States" a figure carries no annotation,
\* whatever the metric, the interval and the toggles.
C7_OnlyUnitedStates ==
    \A s \in DOMAIN ui :
        (Fresh(ui[s]) /\ ui[s].country # "United States") =>
            ui[s].figure.annotations = <<>>

\* Canada, annotations enabled, the Delta date in the interval and a plotted
\* record on or after it
C7_Witness ==
    \E s \in DOMAIN ui :
        LET p == ui[s] IN
        /\ Fresh(p)
        /\ p.country = "Canada"
        /\ p.show_annotations = <<"show">>
        /\ WellFormed(p)
        /\ ToDatetime(p.start_date) <= DeltaDate /\ DeltaDate <= ToDatetime(p.end_date)
        /\ \E i \in 1..Len(PlottedX(p.figure)) : PlottedX(p.figure)[i] >= DeltaDate
        /\ p.figure.annotations = <<>>

\* an event date lies in the session's interval and a plotted record is on or
\* after it
AnchorDue(p, event) ==
    /\ ToDatetime(p.start_date) <= event
    /\ event <= ToDatetime(p.end_date)
    /\ \E i \in 1..Len(PlottedX(p.figure)) : PlottedX(p.figure)[i] >= event

\* C8: a chart of 500 or more rows carries no annotation; a chart of 499 rows
\* or fewer, of the United States with annotations enabled, carries one
\* whenever an anchor is due.
C8_SizeGuard ==
    \A s \in DOMAIN ui :
        LET p == ui[s]
            n == Len(PlottedX(p.figure))
        IN  Fresh(p) =>
            /\ n >= 500 => p.figure.annotations = <<>>
            /\ (/\ n <= 499
                /\ IsChart(p.figure)
                /\ p.country = "United States"
                /\ p.show_annotations = <<"show">>
                /\ AnchorDue(p, DeltaDate) \/ AnchorDue(p, OmicronDate))
               => p.figure.annotations # <<>>

\* one session plots exactly 500 rows around the Delta date and has no
\* annotation, another plots 499 and has the Delta annotation
C8_Witness ==
    \E s, t \in DOMAIN ui :
        /\ Fresh(ui[s]) /\ Fresh(ui[t])
        /\ ui[s].country = "United States" /\ ui[t].country = "United States"
        /\ ui[s].show_annotations = <<"show">> /\ ui[t].show_annotations = <<"show">>
        /\ Len(PlottedX(ui[s].figure)) = 500
        /\ AnchorDue(ui[s], DeltaDate)
        /\ ui[s].figure.annotations = <<>>
        /\ Len(PlottedX(ui[t].figure)) = 499
        /\ Len(ui[t].figure.annotations) = 1
        /\ ui[t].figure.annotations[1].text = "Delta Wave"

Events ==
    {[date |-> ToDatetime(Str(2021, 8, 15)), text |-> "Delta Wave"],
     [date |-> ToDatetime(Str(2022, 1, 10)), text |-> "Omicron Wave"]}

\* the case of the claim: the United States, annotations enabled, a metric
\* column, a well-formed interval, fewer than 500 matching rows
AnnotationCase(p) ==
    /\ Fresh(p)
    /\ p.country = "United States"
    /\ p.show_annotations = <<"show">>
    /\ p.metric \in NumericColumns
    /\ WellFormed(p)
    /\ Cardinality(Matching(p)) < 500

\* the matching rows dated on or after an event
Candidates(p, e) == {k \in Matching(p) : df[k].date >= e.date}

AnchorsOf(p, e) ==
    {i \in 1..Len(p.figure.annotations) : p.figure.annotations[i].text = e.text}

\* an anchor for e iff e is in the interval and a matching row is on or after
\* it; the anchor is the earliest such row's date and metric value
AnchorRule(p, e) ==
    IF /\ ToDatetime(p.start_date) <= e.date
       /\ e.date <= ToDatetime(p.end_date)
       /\ Candidates(p, e) # {}
    THEN LET k == CHOOSE k \in Candidates(p, e) :
                     \A j \in Candidates(p, e) : df[k].date <= df[j].date
         IN  /\ Cardinality(AnchorsOf(p, e)) = 1
             /\ \A i \in AnchorsOf(p, e) :
                   /\ p.figure.annotations[i].x = df[k].date
                   /\ p.figure.annotations[i].y = df[k][p.metric]
    ELSE AnchorsOf(p, e) = {}

OneDeltaAnchor(p) ==
    /\ Len(p.figure.annotations) = 1
    /\ p.figure.annotations[1].text = "Delta Wave"
    /\ p.figure.annotations[1].x >= ToDatetime(Str(2021, 8, 15))
    /\ p.figure.annotations[1].x <= ToDatetime(Str(2021, 8, 31))

\* C9, as amended: in the claim's case each event has an anchor iff it lies in
\* the interval and a matching row is on or after it, placed at the earliest
\* such row; the interval [2021-08-01, 2021-08-31] yields exactly one anchor,
\* "Delta Wave", dated from 2021-08-15 to 2021-08-31, provided the dataset has
\* a United States row in those days, and no anchor otherwise.
C9_Anchors ==
    \A s \in DOMAIN ui :
        LET p == ui[s] IN
        AnnotationCase(p) =>
            /\ \A e \in Events : AnchorRule(p, e)
            /\ \A i \in 1..Len(p.figure.annotations) :
                  \E e \in Events : p.figure.annotations[i].text = e.text
            /\ (p.start_date = Str(2021, 8, 1) /\ p.end_date = Str(2021, 8, 31)) =>
                  IF \E k \in Matching(p) : df[k].date >= ToDatetime(Str(2021, 8, 15))
                  THEN OneDeltaAnchor(p)
                  ELSE p.figure.annotations = <<>>

\* August 2021 of the United States: the anchor sits on 2021-08-16, the first
\* row after the Delta date, with that row's smoothed value
C9_Witness ==
    \E s \in DOMAIN ui :
        LET p == ui[s] IN
        /\ AnnotationCase(p)
        /\ p.metric = "new_cases_avg"
        /\ p.start_date = Str(2021, 8, 1) /\ p.end_date = Str(2021, 8, 31)
        /\ OneDeltaAnchor(p)
        /\ p.figure.annotations[1].x = ToDatetime(Str(2021, 8, 16))
        /\ \E k \in 1..Len(df) : /\ df[k].location = "United States"
                                 /\ df[k].date = ToDatetime(Str(2021, 8, 16))
                                 /\ df[k].new_cases_avg = p.figure.annotations[1].y

\* C9 as stated, read in its favour with a filtered series that is not empty:
\* in the claim's case the interval [2021-08-01, 2021-08-31] yields exactly one
\* anchor, "Delta Wave", dated from 2021-08-15 to 2021-08-31.
C9_AsStated ==
    \A s \in DOMAIN ui :
        LET p == ui[s] IN
        (/\ AnnotationCase(p)
         /\ IsChart(p.figure)
         /\ p.start_date = Str(2021, 8, 1) /\ p.end_date = Str(2021, 8, 31)) =>
            /\ \A e \in Events : AnchorRule(p, e)
            /\ OneDeltaAnchor(p)

\* the arguments update_graph gets from a session
GraphArgs(p) ==
    <<p.country, p.metric, p.start_date, p.end_date,
      p.show_annotations, p.show_markers, p.use_log_scale>>

\* C10: once loaded, no step changes the dataset or the country list, and two
\* sessions whose figures were computed from the same arguments, at whatever
\* times, show the same figure.
C10_ReadOnlyDataset ==
    /\ [][pc = "serving" => (df' = df /\ countries' = countries)]_vars
    /\ [](\A s, t \in DOMAIN ui :
            (Fresh(ui[s]) /\ Fresh(ui[t]) /\ GraphArgs(ui[s]) = GraphArgs(ui[t]))
                => ui[s].figure = ui[t].figure)

\* two sessions with different histories show the same chart of Canada
C10_Witness ==
    /\ pc = "serving"
    /\ "s1" \in DOMAIN ui /\ "s2" \in DOMAIN ui
    /\ Fresh(ui["s1"]) /\ Fresh(ui["s2"])
    /\ GraphArgs(ui["s1"]) = GraphArgs(ui["s2"])
    /\ ui["s1"].country = "Canada"
    /\ ui["s1"].n_clicks # ui["s2"].n_clicks
    /\ IsChart(ui["s1"].figure)
    /\ ui["s1"].figure = ui["s2"].figure

-----------------------------------------------------------------------------
(* load_data followed by queries over the full date span *)

InitDays ==
    /\ csv \in GenCsvs \cup AbsentDayCsvs
    /\ pc = "import"
    /\ df = <<>>
    /\ countries = <<>>
    /\ ui = [s \in {} |-> 0]
    /\ ctx = NoRequest

NextDays ==
    \/ LoadData
    \/ OpenSession("s1")
    \/ GraphCallback("s1")
    \/ \E c \in {"Canada", "United States"} : SelectCountry("s1", c)
    \/ \E m \in {"total_cases", "new_cases"} : SelectMetric("s1", m)

SpecDays == InitDays /\ [][NextDays]_vars

\* a count of the source with a missing value read as zero
ZeroIfMissing(x) == IF x = <<0, 0>> THEN <<0, 1>> ELSE x

\* the source row of a row of the dataset
SourceRow(k) ==
    csv[CHOOSE j \in 1..Len(csv) : /\ csv[j].location = df[k].location
                                   /\ ToDatetime(csv[j].date) = df[k].date]

RECURSIVE SumSource(_)
\* the sum over a set of dataset rows of the source's new_cases, missing as zero
SumSource(S) ==
    IF S = {} THEN <<0, 1>>
    ELSE LET k == CHOOSE k \in S : TRUE
         IN  QAdd(SumSource(S \ {k}), ZeroIfMissing(SourceRow(k).new_cases))

SourceDates(c) == {ToDatetime(csv[j].date) : j \in {i \in 1..Len(csv) : csv[i].location = c}}
SourceSpan == {ToDatetime(csv[j].date) : j \in 1..Len(csv)}

\* the session queries the whole span of the dataset's dates
FullSpan(p) ==
    /\ WellFormed(p)
    /\ \A z \in SourceSpan : ToDatetime(p.start_date) <= z /\ z <= ToDatetime(p.end_date)

\* C11: every source row is loaded, a missing new_cases or total_cases as 0;
\* new_cases_avg is defined on every row and is the sum of the source's
\* new_cases over the location's last (at most 7) rows, a missing one as 0,
\* divided by the number of those rows; the first row of a location has
\* new_cases_avg = new_cases; a query of a country over the full span plots
\* every source row of the country, in ascending date order.
C11_MissingAsZero ==
    pc = "serving" =>
        /\ Len(df) = Len(csv)
        /\ \A k \in 1..Len(df) :
              /\ df[k].new_cases = ZeroIfMissing(SourceRow(k).new_cases)
              /\ df[k].total_cases = ZeroIfMissing(SourceRow(k).total_cases)
              /\ df[k].new_cases_avg # <<0, 0>>
              /\ LET s == SumSource(OwnWindow(k))
                 IN  df[k].new_cases_avg = Q(s[1], s[2] * Cardinality(OwnWindow(k)))
              /\ Cardinality(OwnRows(k)) = 1 => df[k].new_cases_avg = df[k].new_cases
        /\ \A s \in DOMAIN ui :
              LET p  == ui[s]
                  xs == PlottedX(p.figure)
              IN  (Fresh(p) /\ p.metric \in NumericColumns /\ FullSpan(p)) =>
                      /\ Len(xs) = Cardinality(SourceDates(p.country))
                      /\ \A i \in 1..Len(xs) : xs[i] \in SourceDates(p.country)
                      /\ \A i \in 1..(Len(xs) - 1) : xs[i] < xs[i + 1]
                      /\ p.metric = "new_cases" =>
                            \A i \in 1..Len(xs) :
                                \E k \in 1..Len(df) :
                                    /\ df[k].location = p.country
                                    /\ df[k].date = xs[i]
                                    /\ PlottedY(p.figure)[i] = ZeroIfMissing(SourceRow(k).new_cases)

\* the United States has 10 days in the source, the second without counts; the
\* query over the full span plots 10 points, the second one 0, and the mean of
\* the third day is taken over three samples
C11_Witness ==
    /\ pc = "serving"
    /\ Cardinality(SourceDates("United States")) = 10
    /\ \E j \in 1..Len(csv) : /\ csv[j].location = "United States"
                              /\ csv[j].date = Str(2021, 8, 2)
                              /\ csv[j].new_cases = <<0, 0>>
    /\ \E s \in DOMAIN ui :
          /\ Fresh(ui[s])
          /\ ui[s].country = "United States"
          /\ ui[s].metric = "new_cases"
          /\ FullSpan(ui[s])
          /\ Len(PlottedX(ui[s].figure)) = 10
          /\ PlottedY(ui[s].figure)[1] = <<1, 1>>
          /\ PlottedY(ui[s].figure)[2] = <<0, 1>>
    /\ \E k \in 3..Len(df) :
          /\ df[k].location = "United States"
          /\ df[k].date = ToDatetime(Str(2021, 8, 3))
          /\ df[k - 2].location = "United States"
          /\ df[k].new_cases = <<1, 1>>
          /\ df[k].new_cases_avg = <<2, 3>>

\* the selection of a session apart from its date interval
KeptInputs(p) ==
    <<p.country, p.metric, p.show_annotations, p.show_markers, p.use_log_scale>>

\* the chart update_graph produces for a selection
ChartOf(p) ==
    update_graph(df, p.country, p.metric, p.start_date, p.end_date,
                 p.show_annotations, p.show_markers, p.use_log_scale).figure

\* the preset buttons a step of session s has pressed
Pressed(s) == {b \in Buttons : ui'[s].n_clicks[b] # ui[s].n_clicks[b]}

\* a step presses one preset button: country, metric and toggles stay and the
\* interval becomes the button's
PressStep(s) ==
    Pressed(s) # {} =>
        /\ Cardinality(Pressed(s)) = 1
        /\ KeptInputs(ui'[s]) = KeptInputs(ui[s])
        /\ \A b \in Pressed(s) :
              <<ui'[s].start_date, ui'[s].end_date>> =
                  PresetTable(<<[prop_id |-> <<b, ".", "n_clicks">>]>>)

\* a step answers the update_graph call a session is owed: the selection stays
\* and the graph shows its chart
ResponseStep(s) ==
    (ui[s].pending /\ ~ui'[s].pending) =>
        /\ GraphArgs(ui'[s]) = GraphArgs(ui[s])
        /\ ui'[s].figure = ChartOf(ui[s])

\* C12: a press of a preset button changes the date interval to the preset's
\* and leaves country, metric and the three toggles as they were; the chart
\* computed in response is update_graph's chart for that selection; and
\* whenever no call is owed, the displayed chart is update_graph's chart for
\* the current selection, whatever events led to it.
C12_PresetAndSelection ==
    /\ [][\A s \in DOMAIN ui : PressStep(s) /\ ResponseStep(s)]_vars
    /\ [](\A s \in DOMAIN ui :
            ~ui[s].pending => (~ui[s].escaped /\ ui[s].figure = ChartOf(ui[s])))

\* Canada's 7-day average with markers, log scale and no annotations were selected,
\* the Delta button was pressed, and the chart of the preset interval is shown
C12_Witness ==
    /\ pc = "serving"
    /\ \E s \in DOMAIN ui :
          /\ ~ui[s].pending
          /\ ui[s].n_clicks["delta-wave-btn"] = 1
          /\ KeptInputs(ui[s]) = <<"Canada", "new_cases_avg", <<>>, <<"show">>, <<"log">>>>
          /\ <<ui[s].start_date, ui[s].end_date>> = <<Str(2021, 6, 1), Str(2021, 11, 30)>>
          /\ IsChart(ui[s].figure)
          /\ Len(PlottedX(ui[s].figure)) > 0
          /\ ui[s].figure.yaxis_type = "log"

====
